---- MODULE Spec2Model ----
(***************************************************************************)
(* Model of the HTTP to EMS Bridge Python client (http_to_ems_client.py)   *)
(* and of its four command line tools (ems_send.py, publish.py,            *)
(* request_reply.py, get_stats.py).                                        *)
(*                                                                         *)
(* Conventions                                                             *)
(*   Text        a Python str: a sequence of lexical chunks (TLA+ strings);*)
(*               "" is <<>>.  JSON punctuation, quotes and digits are      *)
(*               single-character chunks, so json.loads and str(int) are   *)
(*               computed chunk by chunk.                                  *)
(*   Optional    None is <<>>, a present value x is <<x>>.                 *)
(*   Python value (PyStr, PyInt, PyNone, PyBool, PyDict, PyList): a record *)
(*               [t, s, n, items] tagged by its type t.                    *)
(***************************************************************************)
EXTENDS Integers, Sequences, FiniteSets, TLC

\* ------------------------------------------------------------------ values

None == <<>>

Some(x) == <<x>>

IsNone(o) == o = <<>>

Get(o) == o[1]

PyStr(text) == [t |-> "str", s |-> text, n |-> 0, items |-> <<>>]

PyInt(i) == [t |-> "int", s |-> <<>>, n |-> i, items |-> <<>>]

PyBool(b) == [t |-> "bool", s |-> <<>>, n |-> IF b THEN 1 ELSE 0, items |-> <<>>]

PyNone == [t |-> "none", s |-> <<>>, n |-> 0, items |-> <<>>]

PyDict(members) == [t |-> "dict", s |-> <<>>, n |-> 0, items |-> members]

PyList(elems) == [t |-> "list", s |-> <<>>, n |-> 0, items |-> elems]

\* Python truthiness of a value (bool(v)).
Truthy(v) ==
    CASE v.t = "str" -> v.s # <<>>
      [] v.t = "int" -> v.n # 0
      [] v.t = "bool" -> v.n # 0
      [] v.t = "none" -> FALSE
      [] OTHER -> v.items # <<>>

\* Truthiness of an Optional[str]: None and "" are falsy.
TruthyText(o) == ~IsNone(o) /\ Get(o) # <<>>

\* Truthiness of an Optional[int]: None and 0 are falsy.
TruthyInt(o) == ~IsNone(o) /\ Get(o) # 0

\* a or b on Optional values, with the truthiness test given.
OrText(a, b) == IF TruthyText(a) THEN a ELSE b

\* ------------------------------------------------------------------ str(int)

Digit(d) ==
    CASE d = 0 -> "0" [] d = 1 -> "1" [] d = 2 -> "2" [] d = 3 -> "3"
      [] d = 4 -> "4" [] d = 5 -> "5" [] d = 6 -> "6" [] d = 7 -> "7"
      [] d = 8 -> "8" [] d = 9 -> "9"

RECURSIVE StrNat(_)
StrNat(i) == IF i < 10 THEN <<Digit(i)>> ELSE StrNat(i \div 10) \o <<Digit(i % 10)>>

\* str(i) for a Python int: the decimal text, with a sign for negatives.
Str(i) == IF i < 0 THEN <<"-">> \o StrNat(0 - i) ELSE StrNat(i)

\* needle in hay, for Python str: a contiguous occurrence.
Contains(needle, hay) ==
    \E i \in 1..(Len(hay) - Len(needle) + 1) :
        SubSeq(hay, i, i + Len(needle) - 1) = needle

\* ------------------------------------------------------------------ json.loads

Fail == [ok |-> FALSE, v |-> PyNone, pos |-> 0]

Ok(v, pos) == [ok |-> TRUE, v |-> v, pos |-> pos]

IsDigit(c) == c \in {"0", "1", "2", "3", "4", "5", "6", "7", "8", "9"}

DigitVal(c) == CHOOSE d \in 0..9 : Digit(d) = c

RECURSIVE SkipWs(_, _)
SkipWs(text, pos) ==
    IF pos <= Len(text) /\ text[pos] = " " THEN SkipWs(text, pos + 1) ELSE pos

\* A string literal: from the opening quote at pos to the next quote.
ParseString(text, pos) ==
    LET closing == {j \in (pos + 1)..Len(text) : text[j] = "\""}
    IN IF closing = {} THEN Fail
       ELSE LET j == CHOOSE k \in closing : \A m \in closing : k <= m
            IN Ok(PyStr(SubSeq(text, pos + 1, j - 1)), j + 1)

RECURSIVE ParseDigits(_, _, _)
ParseDigits(text, pos, acc) ==
    IF pos <= Len(text) /\ IsDigit(text[pos])
    THEN ParseDigits(text, pos + 1, acc * 10 + DigitVal(text[pos]))
    ELSE Ok(PyInt(acc), pos)

\* An integer literal: an optional sign, then "0" or a run of digits.
ParseNumber(text, pos) ==
    LET neg == text[pos] = "-"
        first == IF neg THEN pos + 1 ELSE pos
    IN IF first > Len(text) \/ ~IsDigit(text[first]) THEN Fail
       ELSE LET r == IF text[first] = "0" THEN Ok(PyInt(0), first + 1)
                     ELSE ParseDigits(text, first, 0)
            IN IF neg THEN Ok(PyInt(0 - r.v.n), r.pos) ELSE r

RECURSIVE ParseValue(_, _)
RECURSIVE ParseMembers(_, _, _)
RECURSIVE ParseElems(_, _, _)

\* The members of an object, pos at the first key; acc holds those read.
ParseMembers(text, pos, acc) ==
    IF pos > Len(text) \/ text[pos] # "\"" THEN Fail
    ELSE LET k == ParseString(text, pos)
         IN IF ~k.ok THEN Fail
            ELSE LET colon == SkipWs(text, k.pos)
                 IN IF colon > Len(text) \/ text[colon] # ":" THEN Fail
                    ELSE LET val == ParseValue(text, SkipWs(text, colon + 1))
                         IN IF ~val.ok THEN Fail
                            ELSE LET next == SkipWs(text, val.pos)
                                     got == Append(acc, [k |-> k.v.s, v |-> val.v])
                                 IN IF next > Len(text) THEN Fail
                                    ELSE IF text[next] = "}" THEN Ok(PyDict(got), next + 1)
                                    ELSE IF text[next] = ","
                                         THEN ParseMembers(text, SkipWs(text, next + 1), got)
                                    ELSE Fail

\* The elements of an array, pos at the first element; acc holds those read.
ParseElems(text, pos, acc) ==
    LET val == ParseValue(text, pos)
    IN IF ~val.ok THEN Fail
       ELSE LET next == SkipWs(text, val.pos)
                got == Append(acc, [k |-> <<>>, v |-> val.v])
            IN IF next > Len(text) THEN Fail
               ELSE IF text[next] = "]" THEN Ok(PyList(got), next + 1)
               ELSE IF text[next] = "," THEN ParseElems(text, SkipWs(text, next + 1), got)
               ELSE Fail

ParseValue(text, pos) ==
    IF pos > Len(text) THEN Fail
    ELSE LET c == text[pos]
             after == SkipWs(text, pos + 1)
         IN CASE c = "{" ->
                    IF after <= Len(text) /\ text[after] = "}"
                    THEN Ok(PyDict(<<>>), after + 1)
                    ELSE ParseMembers(text, after, <<>>)
              [] c = "[" ->
                    IF after <= Len(text) /\ text[after] = "]"
                    THEN Ok(PyList(<<>>), after + 1)
                    ELSE ParseElems(text, after, <<>>)
              [] c = "\"" -> ParseString(text, pos)
              [] c = "null" -> Ok(PyNone, pos + 1)
              [] c = "true" -> Ok(PyBool(TRUE), pos + 1)
              [] c = "false" -> Ok(PyBool(FALSE), pos + 1)
              [] c = "-" \/ IsDigit(c) -> ParseNumber(text, pos)
              [] OTHER -> Fail

\* json.loads(text): ok is FALSE where Python raises json.JSONDecodeError.
JsonLoads(text) ==
    LET r == ParseValue(text, SkipWs(text, 1))
    IN IF r.ok /\ SkipWs(text, r.pos) = Len(text) + 1
       THEN [ok |-> TRUE, v |-> r.v]
       ELSE [ok |-> FALSE, v |-> PyNone]

\* key in d, for a dict d.
DictHas(d, key) == \E i \in 1..Len(d.items) : d.items[i].k = key

\* d.get(key, default) for a dict d: the last member with that key wins.
DictGet(d, key, default) ==
    IF DictHas(d, key)
    THEN LET i == CHOOSE j \in 1..Len(d.items) :
                      /\ d.items[j].k = key
                      /\ \A m \in 1..Len(d.items) : d.items[m].k = key => m <= j
         IN d.items[i].v
    ELSE default

\* Whether v has a .get attribute (only dict among the values json.loads gives).
HasGet(v) == v.t = "dict"

\* ------------------------------------------------------------------ dict of headers

EmptyDict == <<>>

DictSet(d, key, val) ==
    [h \in DOMAIN d \cup {key} |-> IF h = key THEN val ELSE d[h]]

\* d.update(other): other's entries win.
DictUpdate(d, other) ==
    [h \in DOMAIN d \cup DOMAIN other |-> IF h \in DOMAIN other THEN other[h] ELSE d[h]]

\* ------------------------------------------------------------------ requests

AppJson == <<"application/json">>

\* The bridge's answer to one HTTP call: up is FALSE when the transport fails
\* (requests raises ConnectionError); ctype is the Optional Content-Type header.
Server(up, status, ctype, text) ==
    [up |-> up, status |-> status, ctype |-> ctype, text |-> text]

\* requests.Response.ok: raise_for_status() does not raise.
RespOk(resp) == ~(400 <= resp.status /\ resp.status < 600)

\* resp.headers.get("Content-Type", default)
ContentType(resp, default) == IF IsNone(resp.ctype) THEN default ELSE Get(resp.ctype)

NoRequest == [method |-> "", path |-> "", headers |-> EmptyDict, body |-> <<>>]

\* ------------------------------------------------------------------ results

Outcome(kind, status, body, message_id, message, value) ==
    [kind |-> kind, status |-> status, body |-> body,
     message_id |-> message_id, message |-> message, value |-> value]

NoOutcome == Outcome("", 0, <<>>, PyNone, PyNone, PyNone)

\* SendResult(status, body, message_id): message_id or "".
SendResult(status, body, message_id) ==
    Outcome("SendResult", status, body,
            IF Truthy(message_id) THEN message_id ELSE PyStr(<<>>), PyNone, PyNone)

BridgeError(status_code, message) ==
    Outcome("BridgeError", status_code, <<>>, PyNone, message, PyNone)

\* Any other exception, by class name.
Raised(class) == Outcome(class, 0, <<>>, PyNone, PyNone, PyNone)

IsException(o) == o.kind \notin {"", "SendResult", "Stats"}

\* ------------------------------------------------------------------ HttpToEmsClient

DefaultTimeoutMs == 30000

\* Mutation: the reply headers are set whatever the mode.
ModeHeaders_ReplyAlways(h, in) ==
    LET p == IF in.publish_only THEN DictSet(h, "JMS-PUBLISH-ONLY", <<"YES">>) ELSE h
        q == IF TruthyText(in.reply_queue) THEN DictSet(p, "JMS-QU2", Get(in.reply_queue)) ELSE p
    IN IF ~IsNone(in.timeout_ms) THEN DictSet(q, "JMS-TIMEOUT", Str(Get(in.timeout_ms))) ELSE q

\* The headers that depend on the mode: JMS-PUBLISH-ONLY when publish_only,
\* else JMS-QU2 and JMS-TIMEOUT when given.
ModeHeaders(h, in) ==
    IF in.publish_only THEN DictSet(h, "JMS-PUBLISH-ONLY", <<"YES">>)
    ELSE LET q == IF TruthyText(in.reply_queue)
                  THEN DictSet(h, "JMS-QU2", Get(in.reply_queue)) ELSE h
         IN IF ~IsNone(in.timeout_ms)
            THEN DictSet(q, "JMS-TIMEOUT", Str(Get(in.timeout_ms))) ELSE q

\* The request headers send builds from its parameters.
ReqHeaders(in) ==
    LET h0 == [h \in {"JMS-URL", "JMS-USR", "JMS-QU1"} |->
                  CASE h = "JMS-URL" -> in.jms_url
                    [] h = "JMS-USR" -> in.user
                    [] h = "JMS-QU1" -> in.queue]
        h1 == IF TruthyText(in.password) THEN DictSet(h0, "JMS-PSW", Get(in.password)) ELSE h0
        h2 == ModeHeaders(h1, in)
        h3 == IF TruthyText(in.correlation_id)
              THEN DictSet(h2, "JMS-CORRELATION-ID", Get(in.correlation_id)) ELSE h2
        h4 == IF in.use_json
              THEN DictSet(DictSet(h3, "Content-Type", AppJson), "Accept", AppJson) ELSE h3
    IN IF ~IsNone(in.headers) /\ Get(in.headers) # EmptyDict
       THEN DictUpdate(h4, Get(in.headers)) ELSE h4

\* What send makes of the response to its POST.
SendResponse(resp, publish_only) ==
    LET is_json == Contains(AppJson, ContentType(resp, <<"text/plain">>))
        response_body == resp.text
        parsed == JsonLoads(response_body)
    IN IF ~RespOk(resp)
       THEN IF is_json
            THEN IF ~parsed.ok THEN BridgeError(resp.status, PyStr(response_body))
                 ELSE IF ~HasGet(parsed.v) THEN Raised("AttributeError")
                 ELSE BridgeError(resp.status,
                                  DictGet(parsed.v, <<"error">>, PyStr(response_body)))
            ELSE BridgeError(resp.status, PyStr(response_body))
       ELSE IF publish_only /\ is_json
            THEN IF ~parsed.ok THEN SendResult(resp.status, response_body, PyNone)
                 ELSE IF ~HasGet(parsed.v) THEN Raised("AttributeError")
                 ELSE SendResult(resp.status, response_body,
                                 DictGet(parsed.v, <<"messageId">>, PyStr(<<>>)))
            ELSE SendResult(resp.status, response_body, PyNone)

\* send: the POST it issues and what it returns or raises.
Send(in, srv) ==
    [request |-> [method |-> "POST", path |-> "/", headers |-> ReqHeaders(in),
                  body |-> in.body],
     outcome |-> IF ~srv.up THEN Raised("ConnectionError")
                 ELSE SendResponse(srv, in.publish_only)]

Publish(in, srv) == Send([in EXCEPT !.publish_only = TRUE], srv)

\* timeout_ms or 30000
ReplyTimeout(timeout_ms) ==
    IF TruthyInt(timeout_ms) THEN timeout_ms ELSE Some(DefaultTimeoutMs)

RequestReply(in, srv) ==
    Send([in EXCEPT !.publish_only = FALSE, !.timeout_ms = ReplyTimeout(in.timeout_ms)], srv)

\* Mutation: the use_json flag is not consulted.
WantsJson_IgnoreFlag(resp, use_json) == Contains(AppJson, ContentType(resp, <<>>))

\* Whether get_stats returns resp.json(): JSON was asked for and answered.
WantsJson(resp, use_json) == use_json /\ Contains(AppJson, ContentType(resp, <<>>))

\* What get_stats makes of the response to its GET.
StatsResponse(resp, use_json) ==
    IF ~RespOk(resp) THEN Raised("HTTPError")
    ELSE IF WantsJson(resp, use_json)
         THEN LET parsed == JsonLoads(resp.text)
              IN IF parsed.ok THEN Outcome("Stats", resp.status, <<>>, PyNone, PyNone, parsed.v)
                 ELSE Raised("JSONDecodeError")
         ELSE Outcome("Stats", resp.status, <<>>, PyNone, PyNone,
                      PyDict(<<[k |-> <<"raw">>, v |-> PyStr(resp.text)]>>))

GetStats(use_json, srv) ==
    [request |-> [method |-> "GET", path |-> "/metrics",
                  headers |-> IF use_json THEN DictSet(EmptyDict, "Accept", AppJson)
                              ELSE EmptyDict,
                  body |-> <<>>],
     outcome |-> IF ~srv.up THEN Raised("ConnectionError") ELSE StatsResponse(srv, use_json)]

\* ------------------------------------------------------------------ inputs

MaxTimeout == 1

JmsUrl == <<"tcp://localhost:7222">>

Queue == <<"queue.test">>

Statuses == {200, 304, 500}

ContentTypes == {None, Some(<<"application/json", "; charset=utf-8">>), Some(<<"text/plain">>)}

MessageIdBody == <<"{", "\"", "messageId", "\"", ":", " ", "\"", "ID:abc123", "\"", "}">>

ErrorBody == <<"{", "\"", "error", "\"", ":", "\"", "bad queue", "\"", "}">>

Bodies ==
    { MessageIdBody, ErrorBody,
      <<"{", "}">>,
      <<"[", "1", "]">>,
      <<"{", "\"", "messageId", "\"">>,
      <<"OK">> }

\* Every answer the bridge (or the network) can give to one HTTP call.
Servers ==
    {Server(FALSE, 0, None, <<>>)} \cup
    {Server(TRUE, st, ct, tx) : st \in Statuses, ct \in ContentTypes, tx \in Bodies}

Timeouts == {None, Some(0 - 1), Some(DefaultTimeoutMs)} \cup {Some(t) : t \in 0..MaxTimeout}

ExtraHeaders ==
    { None, Some(EmptyDict),
      Some(DictSet(EmptyDict, "JMSPriority", <<"4">>)),
      Some(DictSet(EmptyDict, "JMS-QU2", <<"queue.other">>)),
      Some(DictSet(EmptyDict, "JMS-TIMEOUT", <<"5">>)),
      Some(DictSet(EmptyDict, "JMS-PUBLISH-ONLY", <<"YES">>)) }

\* The keyword arguments of one call of send / publish / request_reply.
SendInputs ==
    [jms_url : {JmsUrl}, user : {<<"admin">>}, queue : {Queue}, body : {<<"ping">>},
     password : {None, Some(<<"secret">>)},
     reply_queue : {None, Some(<<>>), Some(<<"queue.reply">>)},
     publish_only : BOOLEAN,
     timeout_ms : Timeouts,
     correlation_id : {None, Some(<<"corr-1">>)},
     headers : ExtraHeaders,
     use_json : BOOLEAN]

NoInputs ==
    [jms_url |-> <<>>, user |-> <<>>, queue |-> <<>>, body |-> <<>>, password |-> None,
     reply_queue |-> None, publish_only |-> FALSE, timeout_ms |-> None,
     correlation_id |-> None, headers |-> None, use_json |-> FALSE]

NoCall == [op |-> "", in |-> NoInputs]

NoServer == Server(FALSE, 0, None, <<>>)

\* ------------------------------------------------------------------ state

VARIABLES
    pc,             \* where the caller stands
    variant,        \* which script runs ("library": a direct user of the class)
    args,           \* the parsed command line
    env,            \* environment, file system and standard input
    user,           \* the resolved username (Optional)
    body,           \* the resolved message body
    clientCreated,  \* HttpToEmsClient(...) has been constructed
    sessionOpen,    \* its requests.Session is open
    httpCalls,      \* session.post / session.get calls made
    call,           \* the client method called and its arguments
    request,        \* the HTTP request of that call
    response,       \* the bridge's answer to it
    outcome,        \* what the client method returned or raised
    stdout,         \* what was printed to standard output
    stderr,         \* what was printed to standard error
    exitCode,       \* the process exit code (Optional)
    fileOpens,      \* open(args.file) calls
    stdinReads      \* sys.stdin.read() calls

vars == <<pc, variant, args, env, user, body, clientCreated, sessionOpen, httpCalls, call,
          request, response, outcome, stdout, stderr, exitCode, fileOpens, stdinReads>>

cliVars == <<variant, args, env, user, body, stdout, stderr, exitCode, fileOpens, stdinReads>>

NoArgs ==
    [user_flag |-> None, password |-> <<>>, body |-> <<>>, file |-> None,
     publish_only |-> FALSE, reply_queue |-> None, timeout |-> DefaultTimeoutMs,
     correlation_id |-> None, plain |-> FALSE]

NoEnv == [JMS_USR |-> None, file_ok |-> FALSE, file_text |-> <<>>, isatty |-> TRUE,
          stdin_text |-> <<>>]

Silent == [kind |-> "none", v |-> PyNone]

\* ------------------------------------------------------------------ library use

LibInit ==
    /\ pc = "ready"
    /\ variant = "library"
    /\ args = NoArgs
    /\ env = NoEnv
    /\ user = None
    /\ body = <<>>
    /\ clientCreated = TRUE
    /\ sessionOpen = TRUE
    /\ httpCalls = 0
    /\ call = NoCall
    /\ request = NoRequest
    /\ response = NoServer
    /\ outcome = NoOutcome
    /\ stdout = Silent
    /\ stderr = Silent
    /\ exitCode = None
    /\ fileOpens = 0
    /\ stdinReads = 0

\* One call of a client method: r is what the method did with the answer srv.
Called(op, in, srv, r) ==
    /\ call' = [op |-> op, in |-> in]
    /\ request' = r.request
    /\ response' = srv
    /\ outcome' = r.outcome
    /\ httpCalls' = httpCalls + 1

LibSend ==
    /\ pc = "ready"
    /\ \E in \in SendInputs, srv \in Servers : Called("send", in, srv, Send(in, srv))
    /\ pc' = "returned"
    /\ UNCHANGED <<cliVars, clientCreated, sessionOpen>>

LibPublish ==
    /\ pc = "ready"
    /\ \E in \in SendInputs, srv \in Servers :
          /\ in.publish_only
          /\ Called("publish", in, srv, Publish(in, srv))
    /\ pc' = "returned"
    /\ UNCHANGED <<cliVars, clientCreated, sessionOpen>>

LibRequestReply ==
    /\ pc = "ready"
    /\ \E in \in SendInputs, srv \in Servers :
          /\ ~in.publish_only
          /\ Called("request_reply", in, srv, RequestReply(in, srv))
    /\ pc' = "returned"
    /\ UNCHANGED <<cliVars, clientCreated, sessionOpen>>

LibGetStats ==
    /\ pc = "ready"
    /\ \E use_json \in BOOLEAN, srv \in Servers :
          Called("get_stats", [NoInputs EXCEPT !.use_json = use_json], srv,
                 GetStats(use_json, srv))
    /\ pc' = "returned"
    /\ UNCHANGED <<cliVars, clientCreated, sessionOpen>>

\* close(): releases the session.
LibClose ==
    /\ pc = "returned"
    /\ sessionOpen
    /\ sessionOpen' = FALSE
    /\ pc' = "closed"
    /\ UNCHANGED <<cliVars, clientCreated, httpCalls, call, request, response, outcome>>

LibNext == LibSend \/ LibPublish \/ LibRequestReply \/ LibGetStats \/ LibClose

LibSpec == LibInit /\ [][LibNext]_vars

\* ------------------------------------------------------------------ command line tools

Senders == {"ems_send", "publish", "request_reply"}

Variants == Senders \cup {"get_stats"}

UserTexts == {None, Some(<<>>), Some(<<"admin">>)}

CliTimeouts == (0..MaxTimeout) \cup {DefaultTimeoutMs}

FileText == <<"from file">>

StdinText == <<"abc">>

\* The parsed arguments each script's parser can produce (options a script
\* does not define stay at the value its client call uses).
ArgsOf(v) ==
    IF v = "get_stats" THEN {[NoArgs EXCEPT !.plain = p] : p \in BOOLEAN}
    ELSE [user_flag : UserTexts,
          password : {<<>>, <<"secret">>},
          body : {<<>>, <<"hello">>},
          file : {None, Some(<<>>), Some(<<"message.json">>)},
          publish_only : IF v = "ems_send" THEN BOOLEAN ELSE {v = "publish"},
          reply_queue : {None},
          timeout : IF v = "publish" THEN {DefaultTimeoutMs} ELSE CliTimeouts,
          correlation_id : {None},
          plain : IF v = "ems_send" THEN BOOLEAN ELSE {FALSE}]

\* The surroundings that the script with arguments a can observe.
EnvOf(v, a) ==
    IF v = "get_stats" THEN {NoEnv}
    ELSE [JMS_USR : UserTexts,
          file_ok : IF TruthyText(a.file) THEN BOOLEAN ELSE {FALSE},
          file_text : {FileText},
          isatty : BOOLEAN,
          stdin_text : {StdinText}]

Init ==
    /\ variant \in Variants
    /\ args \in ArgsOf(variant)
    /\ env \in EnvOf(variant, args)
    /\ pc = IF variant = "get_stats" THEN "try" ELSE "parsed"
    /\ user = None
    /\ body = <<>>
    /\ clientCreated = FALSE
    /\ sessionOpen = FALSE
    /\ httpCalls = 0
    /\ call = NoCall
    /\ request = NoRequest
    /\ response = NoServer
    /\ outcome = NoOutcome
    /\ stdout = Silent
    /\ stderr = Silent
    /\ exitCode = None
    /\ fileOpens = 0
    /\ stdinReads = 0

\* args.user: the flag, or argparse's default os.environ.get("JMS_USR").
ArgsUser == IF IsNone(args.user_flag) THEN env.JMS_USR ELSE args.user_flag

\* user = args.user or os.environ.get("JMS_USR")
ResolvedUser == OrText(ArgsUser, env.JMS_USR)

\* Mutation: only a missing username is refused, an empty one passes.
UserOk_NoneOnly(u) == ~IsNone(u)

\* if not user: the username is present and not empty.
UserOk(u) == TruthyText(u)

\* The username check: parser.error prints the usage and exits with status 2.
CheckUser ==
    /\ pc = "parsed"
    /\ variant \in Senders
    /\ user' = ResolvedUser
    /\ IF ~UserOk(ResolvedUser)
       THEN /\ stderr' = [kind |-> "usage", v |-> PyStr(<<"--user is required">>)]
            /\ exitCode' = Some(2)
            /\ pc' = "exited"
       ELSE /\ pc' = "body"
            /\ UNCHANGED <<stderr, exitCode>>
    /\ UNCHANGED <<variant, args, env, body, clientCreated, sessionOpen, httpCalls, call,
                   request, response, outcome, stdout, fileOpens, stdinReads>>

\* Mutation: a literal --body is preferred to --file.
BodySource_BodyFirst ==
    CASE args.body # <<>> -> "arg"
      [] TruthyText(args.file) -> "file"
      [] ~env.isatty -> "stdin"
      [] OTHER -> "arg"

\* Where the body comes from: if args.file / elif not body and not isatty / else.
BodySource ==
    CASE TruthyText(args.file) -> "file"
      [] args.body = <<>> /\ ~env.isatty -> "stdin"
      [] OTHER -> "arg"

\* Body resolution; an open() that fails is outside every try block, so the
\* interpreter prints a traceback and exits with status 1.
ResolveBody ==
    /\ pc = "body"
    /\ IF BodySource = "file"
       THEN /\ fileOpens' = fileOpens + 1
            /\ stdinReads' = stdinReads
            /\ IF env.file_ok
               THEN /\ body' = env.file_text
                    /\ pc' = "try"
                    /\ UNCHANGED <<stderr, exitCode>>
               ELSE /\ body' = args.body
                    /\ stderr' = [kind |-> "traceback", v |-> PyStr(<<"FileNotFoundError">>)]
                    /\ exitCode' = Some(1)
                    /\ pc' = "exited"
       ELSE /\ IF BodySource = "stdin"
               THEN /\ body' = env.stdin_text
                    /\ stdinReads' = stdinReads + 1
               ELSE /\ body' = args.body
                    /\ stdinReads' = stdinReads
            /\ fileOpens' = fileOpens
            /\ pc' = "try"
            /\ UNCHANGED <<stderr, exitCode>>
    /\ UNCHANGED <<variant, args, env, user, clientCreated, sessionOpen, httpCalls, call,
                   request, response, outcome, stdout>>

\* HttpToEmsClient(...): opens a requests.Session.
CreateClient ==
    /\ pc = "try"
    /\ clientCreated' = TRUE
    /\ sessionOpen' = TRUE
    /\ pc' = "call"
    /\ UNCHANGED <<cliVars, httpCalls, call, request, response, outcome>>

\* password = args.password or None
CliPassword == IF args.password # <<>> THEN Some(args.password) ELSE None

\* The keyword arguments the script passes to its client method.
CliInputs ==
    [jms_url |-> JmsUrl, user |-> Get(user), queue |-> Queue, body |-> body,
     password |-> CliPassword,
     reply_queue |-> args.reply_queue,
     publish_only |-> args.publish_only,
     timeout_ms |-> IF variant = "publish" THEN None ELSE Some(args.timeout),
     correlation_id |-> args.correlation_id,
     headers |-> None,
     use_json |-> ~args.plain]

\* Whether the script closes the session after a call with outcome o: the
\* with statement always does, ems_send only when send returned.
ClosesAfter(v, o) == v # "ems_send" \/ ~IsException(o)

\* Mutation: a call that raised is tried once more.
AfterCall_Retry(v, o) ==
    IF IsException(o) /\ httpCalls = 0 THEN "call"
    ELSE IF ClosesAfter(v, o) THEN "close" ELSE "report"

\* Where main continues after the call: no loop leads back to the call.
AfterCall(v, o) == IF ClosesAfter(v, o) THEN "close" ELSE "report"

\* The script's one call of its client method.
CallClient ==
    /\ pc = "call"
    /\ \E srv \in Servers :
          LET r == CASE variant = "ems_send" -> Send(CliInputs, srv)
                     [] variant = "publish" -> Publish(CliInputs, srv)
                     [] variant = "request_reply" -> RequestReply(CliInputs, srv)
                     [] OTHER -> GetStats(~args.plain, srv)
              op == CASE variant = "ems_send" -> "send"
                      [] OTHER -> variant
          IN /\ Called(op, IF variant = "get_stats"
                           THEN [NoInputs EXCEPT !.use_json = ~args.plain]
                           ELSE CliInputs, srv, r)
             /\ pc' = AfterCall(variant, r.outcome)
    /\ UNCHANGED <<cliVars, clientCreated, sessionOpen>>

\* client.close(), or the with statement's __exit__.
CloseClient ==
    /\ pc = "close"
    /\ sessionOpen' = FALSE
    /\ pc' = "report"
    /\ UNCHANGED <<cliVars, clientCreated, httpCalls, call, request, response, outcome>>

\* Whether the script's except clauses catch the exception o.
Catches(v, o) ==
    CASE v \in {"ems_send", "get_stats"} -> TRUE
      [] OTHER -> o.kind = "BridgeError"

\* What the script prints on success.
Printed(v, o) ==
    CASE v = "ems_send" \/ v = "request_reply" -> [kind |-> "text", v |-> PyStr(o.body)]
      [] v = "publish" ->
            [kind |-> "text", v |-> IF Truthy(o.message_id) THEN o.message_id ELSE PyStr(o.body)]
      [] OTHER ->
            IF args.plain /\ o.value.t = "dict" /\ DictHas(o.value, <<"raw">>)
            THEN [kind |-> "text", v |-> DictGet(o.value, <<"raw">>, PyNone)]
            ELSE [kind |-> "json", v |-> o.value]

\* The end of main: print the result, or the error, and return the exit code.
Report ==
    /\ pc = "report"
    /\ IF ~IsException(outcome)
       THEN /\ stdout' = Printed(variant, outcome)
            /\ exitCode' = Some(0)
            /\ UNCHANGED stderr
       ELSE /\ stderr' = IF Catches(variant, outcome)
                         THEN [kind |-> "error",
                               v |-> IF outcome.kind = "BridgeError" THEN outcome.message
                                     ELSE PyStr(<<outcome.kind>>)]
                         ELSE [kind |-> "traceback", v |-> PyStr(<<outcome.kind>>)]
            /\ exitCode' = Some(1)
            /\ UNCHANGED stdout
    /\ pc' = "exited"
    /\ UNCHANGED <<variant, args, env, user, body, clientCreated, sessionOpen, httpCalls,
                   call, request, response, outcome, fileOpens, stdinReads>>

Next == CheckUser \/ ResolveBody \/ CreateClient \/ CallClient \/ CloseClient \/ Report

Spec == Init /\ [][Next]_vars

\* ------------------------------------------------------------------ properties

Is2xx(status) == 200 <= status /\ status <= 299

IsJsonType(resp) == ~IsNone(resp.ctype) /\ Contains(AppJson, Get(resp.ctype))

\* A send-family call (send, publish, request_reply) got an HTTP response.
PostAnswered == request.method = "POST" /\ response.up

\* The caller's extra headers, as a dict.
Extra == IF IsNone(call.in.headers) THEN EmptyDict ELSE Get(call.in.headers)

\* C1: a non-2xx response to send's POST raises BridgeError, and nothing
\* else, carrying the HTTP status, with the body's `error` field as message
\* when the body is a JSON object with that field and the raw response text
\* otherwise.  Stated here for the statuses requests reports as errors (4xx and
\* 5xx) and, for the message, for responses whose Content-Type is JSON.
C1_NonSuccessRaisesBridgeError ==
    (PostAnswered /\ 400 <= response.status /\ response.status <= 599) =>
        LET parsed == JsonLoads(response.text)
        IN /\ outcome.kind = "BridgeError"
           /\ outcome.status = response.status
           /\ IsJsonType(response) =>
                 outcome.message =
                    IF parsed.ok /\ parsed.v.t = "dict" /\ DictHas(parsed.v, <<"error">>)
                    THEN DictGet(parsed.v, <<"error">>, PyNone)
                    ELSE PyStr(response.text)

\* C2 as stated: for all inputs, extra headers included, a publish-only POST
\* carries neither JMS-QU2 nor JMS-TIMEOUT and a request-reply POST carries no
\* JMS-PUBLISH-ONLY.
C2_HeadersMatchModeAlways ==
    request.method = "POST" =>
        IF call.in.publish_only
        THEN {"JMS-QU2", "JMS-TIMEOUT"} \cap DOMAIN request.headers = {}
        ELSE "JMS-PUBLISH-ONLY" \notin DOMAIN request.headers

\* C2 amended: a header of the other mode is in the POST only when the
\* caller's extra headers supply it (and then with the caller's value); send
\* itself never derives it from reply_queue, timeout_ms or publish_only.
C2_HeadersMatchModeUnlessOverridden ==
    request.method = "POST" =>
        \A h \in (IF call.in.publish_only THEN {"JMS-QU2", "JMS-TIMEOUT"}
                  ELSE {"JMS-PUBLISH-ONLY"}) :
            h \in DOMAIN request.headers =>
                h \in DOMAIN Extra /\ request.headers[h] = Extra[h]

\* C2 witness: a publish-only call given a reply queue and a timeout, whose
\* POST carries JMS-PUBLISH-ONLY and neither reply header.
C2_Witness ==
    /\ request.method = "POST"
    /\ call.in.publish_only
    /\ TruthyText(call.in.reply_queue)
    /\ ~IsNone(call.in.timeout_ms)
    /\ "JMS-PUBLISH-ONLY" \in DOMAIN request.headers
    /\ {"JMS-QU2", "JMS-TIMEOUT"} \cap DOMAIN request.headers = {}

\* C3: a 2xx response to a publish-only send in JSON mode returns a
\* SendResult and never raises: message_id is the body's messageId field when
\* the body is JSON carrying it, and otherwise message_id is "" and body is the
\* raw text.  Stated here for responses whose Content-Type is JSON.
C3_PublishJsonAlwaysReturns ==
    (PostAnswered /\ call.in.publish_only /\ call.in.use_json
        /\ Is2xx(response.status) /\ IsJsonType(response)) =>
        LET parsed == JsonLoads(response.text)
        IN /\ outcome.kind = "SendResult"
           /\ outcome.body = response.text
           /\ outcome.message_id =
                 IF parsed.ok /\ parsed.v.t = "dict" /\ DictHas(parsed.v, <<"messageId">>)
                 THEN DictGet(parsed.v, <<"messageId">>, PyNone)
                 ELSE PyStr(<<>>)

\* An error after argument parsing: the client call raised, or open() failed.
ErrorOccurred == IsException(outcome) \/ (fileOpens > 0 /\ ~env.file_ok)

\* C4: in every script, every error after argument parsing is printed to
\* standard error with the Error: prefix and ends the process with exit code 1,
\* never as an uncaught exception.
C4_ErrorsCaughtAtCli ==
    (pc = "exited" /\ ErrorOccurred) =>
        stderr.kind = "error" /\ exitCode = Some(1)

\* C5: in every script, once the client exists its session is closed on every
\* path by which the invocation ends.
C5_SessionClosedAtExit ==
    (pc = "exited" /\ clientCreated) => ~sessionOpen

\* C6: request_reply sends with publish_only false, uses 30000 only when
\* timeout_ms is left unspecified, and otherwise sends the decimal text of the
\* caller's value, 0 included (stated for calls without extra headers).
C6_ReplyTimeoutIsCallersValue ==
    (call.op = "request_reply" /\ IsNone(call.in.headers)) =>
        /\ "JMS-PUBLISH-ONLY" \notin DOMAIN request.headers
        /\ "JMS-TIMEOUT" \in DOMAIN request.headers
        /\ request.headers["JMS-TIMEOUT"] =
              IF IsNone(call.in.timeout_ms) THEN <<"3", "0", "0", "0", "0">>
              ELSE Str(Get(call.in.timeout_ms))

\* --user is missing or empty, and JMS_USR is unset or empty.
UserMissing ==
    /\ args.user_flag \in {None, Some(<<>>)}
    /\ env.JMS_USR \in {None, Some(<<>>)}

\* C7: in each sending script, with no username from --user or JMS_USR the
\* invocation ends with a usage error and a non-zero exit code, and before that
\* exit no client is created, nothing is read from a file or standard input,
\* and no HTTP call is made.
C7_MissingUserIsUsageError ==
    (variant \in Senders /\ UserMissing) =>
        /\ ~clientCreated /\ ~sessionOpen
        /\ fileOpens = 0 /\ stdinReads = 0 /\ httpCalls = 0
        /\ pc \in {"parsed", "exited"}
        /\ pc = "exited" =>
              /\ stderr.kind = "usage"
              /\ ~IsNone(exitCode) /\ Get(exitCode) # 0

\* C7 witness: a sending script that ended on the usage error.
C7_Witness ==
    /\ variant \in Senders
    /\ UserMissing
    /\ pc = "exited"
    /\ exitCode = Some(2)

\* The body has been resolved and main went on to the client.
BodyResolved == variant \in Senders /\ pc \in {"try", "call", "close", "report"}

\* The body and the reads that the stated precedence gives, where fileGiven
\* says whether --file counts as given.
BodyByPrecedence(fileGiven) ==
    /\ body = IF fileGiven THEN env.file_text
              ELSE IF args.body # <<>> THEN args.body
              ELSE IF ~env.isatty THEN env.stdin_text
              ELSE <<>>
    /\ fileOpens = IF fileGiven THEN 1 ELSE 0
    /\ stdinReads = IF ~fileGiven /\ args.body = <<>> /\ ~env.isatty THEN 1 ELSE 0
    /\ call.op # "" => call.in.body = body

\* C8 as stated: whenever --file is given the body is the file content,
\* otherwise a non-empty --body, otherwise standard input when it is not a
\* terminal, otherwise "".
C8_BodyPrecedenceFileGiven ==
    BodyResolved => BodyByPrecedence(~IsNone(args.file))

\* C8 amended: the same precedence, with --file counting only when its path
\* is not empty (--file "" falls through to --body and standard input).
C8_BodyPrecedenceFileNonEmpty ==
    BodyResolved => BodyByPrecedence(~IsNone(args.file) /\ Get(args.file) # <<>>)

\* C8 witness: both --file and --body given, and the file content was passed
\* to the client.
C8_Witness ==
    /\ variant \in Senders
    /\ ~IsNone(args.file) /\ args.body # <<>>
    /\ call.op # "" /\ call.in.body = FileText
    /\ stdinReads = 0

\* How far main has come.
Rank(p) ==
    CASE p = "parsed" -> 0 [] p = "body" -> 1 [] p = "try" -> 2 [] p = "call" -> 3
      [] p = "close" -> 4 [] p = "report" -> 5 [] p = "exited" -> 6

\* C9: every invocation makes at most one HTTP call, whatever its outcome, and
\* then terminates with an exit code: it never stops before it has exited,
\* every step brings it nearer to the exit, and it exits with a code.
C9_OneCallThenExit ==
    /\ [](httpCalls <= 1)
    /\ [](pc = "exited" \/ ENABLED Next)
    /\ [](pc = "exited" <=> ~IsNone(exitCode))
    /\ [][Rank(pc') > Rank(pc)]_vars

\* C9 witness: an invocation whose one call failed and which exited without
\* another call.
C9_Witness ==
    /\ pc = "exited"
    /\ httpCalls = 1
    /\ IsException(outcome)
    /\ exitCode = Some(1)

\* get_stats got an HTTP response.
StatsAnswered == call.op = "get_stats" /\ response.up

RawStats == PyDict(<<[k |-> <<"raw">>, v |-> PyStr(response.text)]>>)

\* The GET that get_stats issues.
StatsRequestOk == request.method = "GET" /\ request.path = "/metrics" /\ httpCalls = 1

====
